---- MODULE Spec2Model ----
(***************************************************************************)
(* The dual-path Fathom client of fathom_connection.py: the response       *)
(* envelope, the construction of a FathomConnection, its SDK and REST      *)
(* primitives, the composed "preferred path, then fallback" operations     *)
(* and the two utility methods; DebugTransport; FathomFilters.             *)
(*                                                                         *)
(* Python values: an Optional[T] is a sequence of length at most one,      *)
(* None == <<>> and Some(x) == <<x>>; a str is a TLA+ string; a dict is a  *)
(* function; an object is a record of its attributes.                      *)
(* The vendor SDK and the HTTP library are outside the repository: what    *)
(* they do during one call (return a value, raise, answer with a status    *)
(* and a body) is an input of the action that makes the call.              *)
(***************************************************************************)
EXTENDS Integers, Sequences, FiniteSets, TLC

VARIABLES
    phase,          \* "none": no constructor call yet; "ready": a connection exists; "failed": __init__ raised
    environ,        \* os.getenv('FATHOM_API_KEY') as it is once ~/.env is loaded
    debug,          \* self.debug
    api_key,        \* self.api_key
    base_url,       \* self.base_url
    sdk_client,     \* self.sdk_client
    rest_headers,   \* self.rest_headers
    op,             \* name of the last method invoked
    args,           \* its arguments
    outcomes,       \* what the transports did while it ran
    result,         \* Some(value it returned), None when it raised
    raised,         \* Some(str(exception)) that escaped it, None when it returned
    calls,          \* the primitive operations it ran, in order, each with its envelope
    net,            \* the transport calls it made, in order
    stdout          \* the lines it printed

conn == <<debug, api_key, base_url, sdk_client, rest_headers>>
last == <<op, args, outcomes, result, raised, calls, net, stdout>>
vars == <<phase, environ, debug, api_key, base_url, sdk_client, rest_headers,
          op, args, outcomes, result, raised, calls, net, stdout>>

-----------------------------------------------------------------------------
(* Python values *)

None == <<>>
Some(x) == <<x>>
\* an attribute slot of an object: Unset until an assignment creates it, then
\* Some(value)
Unset == <<>>
EmptyDict == [k \in {} |-> ""]
\* truth value of an Optional[str]: None and "" are false
Truthy(s) == s # None /\ s[1] # ""
Min(a, b) == IF a < b THEN a ELSE b
\* s[:n]
Slice(s, n) == SubSeq(s, 1, Min(n, Len(s)))

\* how a function body or a call ends
Return(v, n) == [kind |-> "return", val |-> Some(v), exc |-> "", net |-> n]
Raise(e, n) == [kind |-> "raise", val |-> None, exc |-> e, net |-> n]

-----------------------------------------------------------------------------
(* Inputs *)

PREFIX_LEN == 10
HTTP_OK == 200
TRUNCATE_LEN == 20

\* the api_key argument of the constructor
KeyArgs == {None, Some(""), Some("k3y")}
\* FATHOM_API_KEY in the environment
EnvValues == {None, Some(""), Some("fathom-key-12345")}

\* **filters / **params / **kwargs of the meetings operations
Params == {EmptyDict, "created_after" :> "2026-01-01T00:00:00Z"}

\* one call of the vendor SDK: it returns a response object or raises
SdkOutcomes ==
    {[raises |-> FALSE, val |-> "sdk_response", exc |-> ""],
     [raises |-> TRUE, val |-> "", exc |-> "sdk: unauthorized"]}

\* one requests.get: it raises, or answers with a status code and a body
StatusCodes == {200, 201, 204, 404}
Bodies == {"[]", "oops"}
RestOutcomes ==
    {[raises |-> TRUE, status_code |-> 0, text |-> "", exc |-> "rest: connection refused"]}
    \cup {[raises |-> FALSE, status_code |-> s, text |-> b, exc |-> ""] :
            s \in StatusCodes, b \in Bodies}

\* the outcomes test_connection is exercised with
ProbeRestOutcomes ==
    {o \in RestOutcomes : o.raises \/ (o.status_code = 200 /\ o.text = "[]")
                                   \/ (o.status_code = 404 /\ o.text = "oops")}

\* response.json(): the parsed body, or the decoder's exception
Json(text) ==
    IF text = "[]" THEN [ok |-> TRUE, val |-> "list()", exc |-> ""]
    ELSE IF text = "{}" THEN [ok |-> TRUE, val |-> "dict()", exc |-> ""]
    ELSE [ok |-> FALSE, val |-> "", exc |-> "Expecting value: line 1 column 1 (char 0)"]

-----------------------------------------------------------------------------
(* FathomResponse *)

FathomResponse(success, data, error, method, status_code) ==
    [success |-> success, data |-> data, error |-> error,
     method |-> method, status_code |-> status_code]

-----------------------------------------------------------------------------
(* FathomConnection.__init__ *)

\* _load_api_key without the `if not api_key: raise`
load_api_key_unchecked(param, env) ==
    IF Truthy(param) THEN Return(param[1], <<>>)
    ELSE IF ~Truthy(env) THEN Return("", <<>>)
         ELSE Return(env[1], <<>>)

\* _load_api_key: the parameter if it is non-empty, else the environment's
\* entry, else ValueError
load_api_key(param, env) ==
    IF Truthy(param) THEN Return(param[1], <<>>)
    ELSE IF ~Truthy(env)
         THEN Raise("FATHOM_API_KEY not found in ~/.env or provided as parameter", <<>>)
         ELSE Return(env[1], <<>>)

\* _init_sdk_client: Fathom(...) over the debug client or the default one;
\* None when the constructor of the SDK raises
init_sdk_client(dbg, key, ctor) ==
    LET body == IF ctor.raises THEN Raise(ctor.exc, <<>>)
                ELSE IF dbg
                     THEN Return([security |-> key, client |-> "debug_client"], <<>>)
                     ELSE Return([security |-> key, client |-> "default"], <<>>)
    IN  IF body.kind = "raise" THEN None ELSE body.val

\* the SDK's constructor: it builds the client or raises
CtorOutcomes ==
    {[raises |-> FALSE, exc |-> ""], [raises |-> TRUE, exc |-> "sdk: bad security"]}

\* what _init_sdk_client prints: the failure of the SDK's constructor, in
\* debug mode only
init_sdk_client_prints(dbg, ctor) ==
    IF ctor.raises /\ dbg
    THEN <<"Failed to initialize SDK client: " \o ctor.exc>>
    ELSE <<>>

NewObject ==
    [debug |-> Unset, api_key |-> Unset, base_url |-> Unset,
     sdk_client |-> Unset, rest_headers |-> Unset]

\* __init__: the attributes are assigned in the order of the source; an
\* exception of _load_api_key leaves the later ones unassigned and escapes
FathomConnectionInit(param, env, dbg, ctor) ==
    LET s1 == [NewObject EXCEPT !.debug = Some(dbg)]
        k == load_api_key(param, env)
    IN  IF k.kind = "raise"
        THEN [kind |-> "raise", val |-> None, exc |-> k.exc, net |-> k.net,
              calls |-> <<>>, self |-> s1]
        ELSE LET s2 == [s1 EXCEPT !.api_key = k.val]
                 s3 == [s2 EXCEPT !.base_url = Some("https://api.fathom.ai/external/v1")]
                 s4 == [s3 EXCEPT !.sdk_client = Some(init_sdk_client(dbg, k.val[1], ctor))]
                 s5 == [s4 EXCEPT !.rest_headers =
                            Some(("x-api-key" :> s4.api_key[1]) @@ ("Accept" :> "application/json"))]
             IN  [kind |-> "return", val |-> None, exc |-> "", net |-> k.net,
                  calls |-> <<>>, self |-> s5, out |-> init_sdk_client_prints(dbg, ctor)]

-----------------------------------------------------------------------------
(* SDK methods.  self is the record of the connection's attributes. *)

SdkCall(method, params) == [kind |-> "sdk", method |-> method, params |-> params]

list_teams_sdk(self, o) ==
    IF self.sdk_client[1] = None
    THEN Return(FathomResponse(FALSE, None, Some("SDK client not initialized"), "sdk", None), <<>>)
    ELSE LET n == <<SdkCall("list_teams", EmptyDict)>>
             body == IF o.raises THEN Raise(o.exc, n)
                     ELSE Return(FathomResponse(TRUE, Some(o.val), None, "sdk", None), n)
         IN  IF body.kind = "raise"
             THEN Return(FathomResponse(FALSE, None, Some(body.exc), "sdk", None), body.net)
             ELSE body

\* list_meetings_sdk without the `if not self.sdk_client` guard
list_meetings_sdk_unguarded(self, filters, o) ==
    LET n == <<SdkCall("list_meetings", filters)>>
        body == IF o.raises THEN Raise(o.exc, n)
                ELSE Return(FathomResponse(TRUE, Some(o.val), None, "sdk", None), n)
    IN  IF body.kind = "raise"
        THEN Return(FathomResponse(FALSE, None, Some(body.exc), "sdk", None), body.net)
        ELSE body

list_meetings_sdk(self, filters, o) ==
    IF self.sdk_client[1] = None
    THEN Return(FathomResponse(FALSE, None, Some("SDK client not initialized"), "sdk", None), <<>>)
    ELSE LET n == <<SdkCall("list_meetings", filters)>>
             body == IF o.raises THEN Raise(o.exc, n)
                     ELSE Return(FathomResponse(TRUE, Some(o.val), None, "sdk", None), n)
         IN  IF body.kind = "raise"
             THEN Return(FathomResponse(FALSE, None, Some(body.exc), "sdk", None), body.net)
             ELSE body

-----------------------------------------------------------------------------
(* REST methods *)

HttpGet(url, headers, params) ==
    [kind |-> "http_get", url |-> url, headers |-> headers, params |-> params]

\* list_teams_rest that raises for a non-200 status, as raise_for_status would
list_teams_rest_raise_for_status(self, o) ==
    LET url == self.base_url[1] \o "/teams"
        n == <<HttpGet(url, self.rest_headers[1], EmptyDict)>>
        body == IF o.raises THEN Raise(o.exc, n)
                ELSE IF o.status_code # HTTP_OK THEN Raise("HTTPError", n)
                ELSE IF ~Json(o.text).ok THEN Raise(Json(o.text).exc, n)
                ELSE Return(FathomResponse(TRUE, Some(Json(o.text).val), None, "rest",
                                           Some(o.status_code)), n)
    IN  IF body.kind = "raise"
        THEN Return(FathomResponse(FALSE, None, Some(body.exc), "rest", None), body.net)
        ELSE body

\* list_teams_rest whose except clause misses the decoder's exception
list_teams_rest_json_escapes(self, o) ==
    LET url == self.base_url[1] \o "/teams"
        n == <<HttpGet(url, self.rest_headers[1], EmptyDict)>>
    IN  IF o.raises
        THEN Return(FathomResponse(FALSE, None, Some(o.exc), "rest", None), n)
        ELSE IF o.status_code = HTTP_OK /\ ~Json(o.text).ok
             THEN Raise(Json(o.text).exc, n)
             ELSE Return(FathomResponse(
                           o.status_code = HTTP_OK,
                           IF o.status_code = HTTP_OK THEN Some(Json(o.text).val) ELSE None,
                           IF o.status_code # HTTP_OK THEN Some(o.text) ELSE None,
                           "rest",
                           Some(o.status_code)), n)

list_teams_rest(self, o) ==
    LET url == self.base_url[1] \o "/teams"
        n == <<HttpGet(url, self.rest_headers[1], EmptyDict)>>
        body == IF o.raises THEN Raise(o.exc, n)
                ELSE IF o.status_code = HTTP_OK /\ ~Json(o.text).ok
                     THEN Raise(Json(o.text).exc, n)
                     ELSE Return(FathomResponse(
                                   o.status_code = HTTP_OK,
                                   IF o.status_code = HTTP_OK THEN Some(Json(o.text).val) ELSE None,
                                   IF o.status_code # HTTP_OK THEN Some(o.text) ELSE None,
                                   "rest",
                                   Some(o.status_code)), n)
    IN  IF body.kind = "raise"
        THEN Return(FathomResponse(FALSE, None, Some(body.exc), "rest", None), body.net)
        ELSE body

\* list_meetings_rest that takes every 2xx status for a success (response.ok)
list_meetings_rest_any_2xx(self, params, o) ==
    LET url == self.base_url[1] \o "/meetings"
        n == <<HttpGet(url, self.rest_headers[1], params)>>
        ok == o.status_code \in 200..299
        body == IF o.raises THEN Raise(o.exc, n)
                ELSE IF ok /\ ~Json(o.text).ok THEN Raise(Json(o.text).exc, n)
                     ELSE Return(FathomResponse(
                                   ok,
                                   IF ok THEN Some(Json(o.text).val) ELSE None,
                                   IF ~ok THEN Some(o.text) ELSE None,
                                   "rest",
                                   Some(o.status_code)), n)
    IN  IF body.kind = "raise"
        THEN Return(FathomResponse(FALSE, None, Some(body.exc), "rest", None), body.net)
        ELSE body

\* list_meetings_rest with data=response.json() for every status
list_meetings_rest_data_kept(self, params, o) ==
    LET url == self.base_url[1] \o "/meetings"
        n == <<HttpGet(url, self.rest_headers[1], params)>>
        body == IF o.raises THEN Raise(o.exc, n)
                ELSE IF ~Json(o.text).ok THEN Raise(Json(o.text).exc, n)
                     ELSE Return(FathomResponse(
                                   o.status_code = HTTP_OK,
                                   Some(Json(o.text).val),
                                   IF o.status_code # HTTP_OK THEN Some(o.text) ELSE None,
                                   "rest",
                                   Some(o.status_code)), n)
    IN  IF body.kind = "raise"
        THEN Return(FathomResponse(FALSE, None, Some(body.exc), "rest", None), body.net)
        ELSE body

list_meetings_rest(self, params, o) ==
    LET url == self.base_url[1] \o "/meetings"
        n == <<HttpGet(url, self.rest_headers[1], params)>>
        body == IF o.raises THEN Raise(o.exc, n)
                ELSE IF o.status_code = HTTP_OK /\ ~Json(o.text).ok
                     THEN Raise(Json(o.text).exc, n)
                     ELSE Return(FathomResponse(
                                   o.status_code = HTTP_OK,
                                   IF o.status_code = HTTP_OK THEN Some(Json(o.text).val) ELSE None,
                                   IF o.status_code # HTTP_OK THEN Some(o.text) ELSE None,
                                   "rest",
                                   Some(o.status_code)), n)
    IN  IF body.kind = "raise"
        THEN Return(FathomResponse(FALSE, None, Some(body.exc), "rest", None), body.net)
        ELSE body

-----------------------------------------------------------------------------
(* Combined methods: the preferred path, then the other one.               *)
(* Each returns how it ended, the primitive operations it ran (calls), the *)
(* transport calls they made (net) and the object's attributes on exit.    *)

\* one primitive operation run by a method, with how it ended
Call(path, what, params, r) ==
    [path |-> path, what |-> what, params |-> params,
     kind |-> r.kind, env |-> r.val, exc |-> r.exc]

\* the method ends as the call r ended
End(r, cs, n, self) ==
    [kind |-> r.kind, val |-> r.val, exc |-> r.exc, net |-> n, calls |-> cs, self |-> self]

\* list_teams that drops the SDK client once the SDK path has failed
list_teams_remembers(self, prefer_rest, oSdk, oRest) ==
    LET rR == list_teams_rest(self, oRest)
        cR == Call("rest", "teams", EmptyDict, rR)
        rS == list_teams_sdk(self, oSdk)
        cS == Call("sdk", "teams", EmptyDict, rS)
        broken == [self EXCEPT !.sdk_client = Some(None)]
    IN  IF prefer_rest
        THEN IF rR.val[1].success THEN End(rR, <<cR>>, rR.net, self)
             ELSE End(rS, <<cR, cS>>, rR.net \o rS.net,
                      IF rS.val[1].success THEN self ELSE broken)
        ELSE IF rS.val[1].success THEN End(rS, <<cS>>, rS.net, self)
             ELSE End(rR, <<cS, cR>>, rS.net \o rR.net, broken)

\* list_teams that tries the preferred path a second time before falling back
list_teams_retry(self, prefer_rest, oSdk, oRest) ==
    LET rR == list_teams_rest(self, oRest)
        cR == Call("rest", "teams", EmptyDict, rR)
        rS == list_teams_sdk(self, oSdk)
        cS == Call("sdk", "teams", EmptyDict, rS)
        r1 == IF prefer_rest THEN rR ELSE rS
        c1 == IF prefer_rest THEN cR ELSE cS
        r2 == IF prefer_rest THEN rS ELSE rR
        c2 == IF prefer_rest THEN cS ELSE cR
    IN  IF r1.val[1].success THEN End(r1, <<c1>>, r1.net, self)
        ELSE End(r2, <<c1, c1, c2>>, r1.net \o r1.net \o r2.net, self)

\* list_teams that keeps the first error when the fallback fails too
list_teams_first_error(self, prefer_rest, oSdk, oRest) ==
    LET rR == list_teams_rest(self, oRest)
        cR == Call("rest", "teams", EmptyDict, rR)
        rS == list_teams_sdk(self, oSdk)
        cS == Call("sdk", "teams", EmptyDict, rS)
        r1 == IF prefer_rest THEN rR ELSE rS
        c1 == IF prefer_rest THEN cR ELSE cS
        r2 == IF prefer_rest THEN rS ELSE rR
        c2 == IF prefer_rest THEN cS ELSE cR
    IN  IF r1.val[1].success THEN End(r1, <<c1>>, r1.net, self)
        ELSE IF r2.val[1].success THEN End(r2, <<c1, c2>>, r1.net \o r2.net, self)
        ELSE End(r1, <<c1, c2>>, r1.net \o r2.net, self)

list_teams(self, prefer_rest, oSdk, oRest) ==
    IF prefer_rest
    THEN LET r1 == list_teams_rest(self, oRest)
             c1 == Call("rest", "teams", EmptyDict, r1)
         IN  IF r1.kind = "raise" THEN End(r1, <<c1>>, r1.net, self)
             ELSE IF r1.val[1].success THEN End(r1, <<c1>>, r1.net, self)
             ELSE LET r2 == list_teams_sdk(self, oSdk)
                      c2 == Call("sdk", "teams", EmptyDict, r2)
                  IN  End(r2, <<c1, c2>>, r1.net \o r2.net, self)
    ELSE LET r1 == list_teams_sdk(self, oSdk)
             c1 == Call("sdk", "teams", EmptyDict, r1)
         IN  IF r1.kind = "raise" THEN End(r1, <<c1>>, r1.net, self)
             ELSE IF r1.val[1].success THEN End(r1, <<c1>>, r1.net, self)
             ELSE LET r2 == list_teams_rest(self, oRest)
                      c2 == Call("rest", "teams", EmptyDict, r2)
                  IN  End(r2, <<c1, c2>>, r1.net \o r2.net, self)

\* list_meetings whose fallback call forgets **kwargs
list_meetings_drop_kwargs(self, prefer_rest, kwargs, oSdk, oRest) ==
    IF prefer_rest
    THEN LET r1 == list_meetings_rest(self, kwargs, oRest)
             c1 == Call("rest", "meetings", kwargs, r1)
         IN  IF r1.val[1].success THEN End(r1, <<c1>>, r1.net, self)
             ELSE LET r2 == list_meetings_sdk(self, EmptyDict, oSdk)
                      c2 == Call("sdk", "meetings", EmptyDict, r2)
                  IN  End(r2, <<c1, c2>>, r1.net \o r2.net, self)
    ELSE LET r1 == list_meetings_sdk(self, kwargs, oSdk)
             c1 == Call("sdk", "meetings", kwargs, r1)
         IN  IF r1.val[1].success THEN End(r1, <<c1>>, r1.net, self)
             ELSE LET r2 == list_meetings_rest(self, EmptyDict, oRest)
                      c2 == Call("rest", "meetings", EmptyDict, r2)
                  IN  End(r2, <<c1, c2>>, r1.net \o r2.net, self)

\* list_meetings that queries both paths before it chooses
list_meetings_eager(self, prefer_rest, kwargs, oSdk, oRest) ==
    LET rR == list_meetings_rest(self, kwargs, oRest)
        cR == Call("rest", "meetings", kwargs, rR)
        rS == list_meetings_sdk(self, kwargs, oSdk)
        cS == Call("sdk", "meetings", kwargs, rS)
    IN  IF prefer_rest
        THEN IF rR.val[1].success THEN End(rR, <<cR, cS>>, rR.net \o rS.net, self)
             ELSE End(rS, <<cR, cS>>, rR.net \o rS.net, self)
        ELSE IF rS.val[1].success THEN End(rS, <<cS, cR>>, rS.net \o rR.net, self)
             ELSE End(rR, <<cS, cR>>, rS.net \o rR.net, self)

list_meetings(self, prefer_rest, kwargs, oSdk, oRest) ==
    IF prefer_rest
    THEN LET r1 == list_meetings_rest(self, kwargs, oRest)
             c1 == Call("rest", "meetings", kwargs, r1)
         IN  IF r1.kind = "raise" THEN End(r1, <<c1>>, r1.net, self)
             ELSE IF r1.val[1].success THEN End(r1, <<c1>>, r1.net, self)
             ELSE LET r2 == list_meetings_sdk(self, kwargs, oSdk)
                      c2 == Call("sdk", "meetings", kwargs, r2)
                  IN  End(r2, <<c1, c2>>, r1.net \o r2.net, self)
    ELSE LET r1 == list_meetings_sdk(self, kwargs, oSdk)
             c1 == Call("sdk", "meetings", kwargs, r1)
         IN  IF r1.kind = "raise" THEN End(r1, <<c1>>, r1.net, self)
             ELSE IF r1.val[1].success THEN End(r1, <<c1>>, r1.net, self)
             ELSE LET r2 == list_meetings_rest(self, kwargs, oRest)
                      c2 == Call("rest", "meetings", kwargs, r2)
                  IN  End(r2, <<c1, c2>>, r1.net \o r2.net, self)

-----------------------------------------------------------------------------
(* Utility methods *)

get_api_key_info(self) ==
    End(Return([length |-> Len(self.api_key[1]),
                prefix |-> Slice(self.api_key[1], PREFIX_LEN) \o "...",
                sdk_client_available |-> self.sdk_client[1] # None], <<>>),
        <<>>, <<>>, self)

\* the four primitives in the order of the dict display; the first that
\* raises ends the method
test_connection(self, oTS, oTR, oMS, oMR) ==
    LET r1 == list_teams_sdk(self, oTS)
        c1 == Call("sdk", "teams", EmptyDict, r1)
        r2 == list_teams_rest(self, oTR)
        c2 == Call("rest", "teams", EmptyDict, r2)
        r3 == list_meetings_sdk(self, EmptyDict, oMS)
        c3 == Call("sdk", "meetings", EmptyDict, r3)
        r4 == list_meetings_rest(self, EmptyDict, oMR)
        c4 == Call("rest", "meetings", EmptyDict, r4)
    IN  IF r1.kind = "raise" THEN End(r1, <<c1>>, r1.net, self)
        ELSE IF r2.kind = "raise" THEN End(r2, <<c1, c2>>, r1.net \o r2.net, self)
        ELSE IF r3.kind = "raise"
             THEN End(r3, <<c1, c2, c3>>, r1.net \o r2.net \o r3.net, self)
        ELSE IF r4.kind = "raise"
             THEN End(r4, <<c1, c2, c3, c4>>, r1.net \o r2.net \o r3.net \o r4.net, self)
        ELSE End(Return([teams_sdk |-> r1.val[1], teams_rest |-> r2.val[1],
                         meetings_sdk |-> r3.val[1], meetings_rest |-> r4.val[1]], <<>>),
                 <<c1, c2, c3, c4>>, r1.net \o r2.net \o r3.net \o r4.net, self)

-----------------------------------------------------------------------------
(* DebugTransport *)

UPPERCASE == "ABCDEFGHIJKLMNOPQRSTUVWXYZ"
LOWERCASE == "abcdefghijklmnopqrstuvwxyz"
Char(s, i) == SubSeq(s, i, i)

\* str.lower() of one character
LowerChar(c) ==
    IF \E i \in 1..Len(UPPERCASE) : Char(UPPERCASE, i) = c
    THEN Char(LOWERCASE, CHOOSE i \in 1..Len(UPPERCASE) : Char(UPPERCASE, i) = c)
    ELSE c

\* str.lower()
RECURSIVE lower(_)
lower(s) == IF s = "" THEN "" ELSE LowerChar(Char(s, 1)) \o lower(SubSeq(s, 2, Len(s)))

\* sub in s
Contains(sub, s) ==
    \E i \in 1..(Len(s) - Len(sub) + 1) : SubSeq(s, i, i + Len(sub) - 1) = sub

\* the line printed for one header
HeaderLine(key, value) ==
    IF Contains("auth", lower(key)) \/ Contains("key", lower(key))
    THEN IF Len(value) > TRUNCATE_LEN
         THEN "  " \o key \o ": " \o Slice(value, TRUNCATE_LEN) \o "..."
         ELSE "  " \o key \o ": " \o value
    ELSE "  " \o key \o ": " \o value

\* what one call of the wrapped transport is asked to send
Delegated(request) == [kind |-> "transport", request |-> request]

\* handle_request with a comparison of the lower-cased needle against the
\* header name as it is
handle_request_case_sensitive(self, request, o) ==
    LET line(h) == IF (Contains("auth", h[1]) \/ Contains("key", h[1]))
                      /\ Len(h[2]) > TRUNCATE_LEN
                   THEN "  " \o h[1] \o ": " \o Slice(h[2], TRUNCATE_LEN) \o "..."
                   ELSE "  " \o h[1] \o ": " \o h[2]
        out == IF self.debug
               THEN <<"DEBUG: " \o request.method \o " " \o request.url>>
                    \o [i \in 1..Len(request.headers) |-> line(request.headers[i])]
               ELSE <<>>
    IN  [kind |-> IF o.raises THEN "raise" ELSE "return",
         val |-> IF o.raises THEN None ELSE Some(o.response),
         exc |-> o.exc, net |-> <<Delegated(request)>>, out |-> out]

\* handle_request that sends on the headers as it logged them
handle_request_redacts(self, request, o) ==
    LET cut(h) == IF Len(h[2]) > TRUNCATE_LEN
                  THEN <<h[1], Slice(h[2], TRUNCATE_LEN) \o "...">> ELSE h
        sent == IF self.debug
                THEN [request EXCEPT !.headers =
                        [i \in 1..Len(request.headers) |-> cut(request.headers[i])]]
                ELSE request
        out == IF self.debug
               THEN <<"DEBUG: " \o request.method \o " " \o request.url>>
                    \o [i \in 1..Len(request.headers) |->
                           HeaderLine(request.headers[i][1], request.headers[i][2])]
               ELSE <<>>
    IN  [kind |-> IF o.raises THEN "raise" ELSE "return",
         val |-> IF o.raises THEN None ELSE Some(o.response),
         exc |-> o.exc, net |-> <<Delegated(sent)>>, out |-> out]

\* DebugTransport.handle_request; self is [transport, debug], o is what the
\* wrapped transport does with the request (it answers or raises); nothing
\* catches its exception
handle_request(self, request, o) ==
    LET out == IF self.debug
               THEN <<"DEBUG: " \o request.method \o " " \o request.url>>
                    \o [i \in 1..Len(request.headers) |->
                           HeaderLine(request.headers[i][1], request.headers[i][2])]
               ELSE <<>>
    IN  [kind |-> IF o.raises THEN "raise" ELSE "return",
         val |-> IF o.raises THEN None ELSE Some(o.response),
         exc |-> o.exc, net |-> <<Delegated(request)>>, out |-> out]

\* header values: prefixes of the alphabet, of lengths around TRUNCATE_LEN
MaxValueLen == 21
HeaderValues ==
    {Slice(LOWERCASE, n) : n \in {0} \cup ((TRUNCATE_LEN - 1)..MaxValueLen)}
HeaderNames == {"x-api-key", "Authorization", "PROXY-KEY", "Accept"}

\* requests with one header, and the request of the REST headers' shape
Requests ==
    {[method |-> "GET", url |-> "https://api.fathom.ai/external/v1/teams",
      headers |-> <<<<k, v>>>>] : k \in HeaderNames, v \in HeaderValues}
    \cup {[method |-> "GET", url |-> "https://api.fathom.ai/external/v1/meetings",
           headers |-> <<<<"x-api-key", LOWERCASE>>, <<"Accept", "application/json">>>>]}

\* the wrapped transport's handle_request: a response, or an exception
TransportOutcomes ==
    {[raises |-> FALSE, response |-> "<Response [200 OK]>", exc |-> ""],
     [raises |-> TRUE, response |-> "", exc |-> "ConnectError"]}

-----------------------------------------------------------------------------
(* FathomFilters *)

SECONDS_PER_DAY == 86400

\* the clock of the machine: the instant in seconds since the epoch (UTC)
\* and the offset of its local time zone from UTC in seconds
Clocks ==
    {[utc |-> t, offset |-> z] : t \in {1000000}, z \in {-18000, 0, 7200}}
Days == {-1, 0, 7}

\* datetime.now(): the local wall-clock time, in seconds, without tzinfo
datetime_now(clock) == [wall |-> clock.utc + clock.offset, tzinfo |-> None]

\* dt - timedelta(days=days)
minus_days(dt, days) == [dt EXCEPT !.wall = dt.wall - days * SECONDS_PER_DAY]

\* dt.isoformat() + "Z": the wall-clock fields of dt as text (a naive
\* datetime prints no offset), then the designator
isoformat_Z(dt) == [datetime |-> dt.wall, designator |-> "Z"]

last_n_days(days, clock) ==
    LET date == isoformat_Z(minus_days(datetime_now(clock), days))
    IN  "created_after" :> date

external_meetings ==
    "calendar_invitees_domains_type" :> "ListMeetingsCalendarInviteesDomainsType.ONE_OR_MORE_EXTERNAL"

\* internal_meetings keyed by the deprecated meeting_type parameter
internal_meetings_meeting_type ==
    "meeting_type" :> "MeetingType.INTERNAL"

internal_meetings ==
    "calendar_invitees_domains_type" :> "ListMeetingsCalendarInviteesDomainsType.ONLY_INTERNAL"

with_details ==
    ("include_action_items" :> TRUE) @@ ("include_crm_matches" :> TRUE)
    @@ ("include_summary" :> TRUE) @@ ("include_transcript" :> TRUE)

\* {**a, **b}: the entries of a, then those of b over them
Merge(a, b) ==
    [k \in DOMAIN a \cup DOMAIN b |-> IF k \in DOMAIN b THEN b[k] ELSE a[k]]

\* {**d1, **d2, ...}
RECURSIVE MergeAll(_)
MergeAll(ds) ==
    IF ds = <<>> THEN EmptyDict
    ELSE Merge(MergeAll(SubSeq(ds, 1, Len(ds) - 1)), ds[Len(ds)])

\* the clock and the argument the merged last_n_days filter is built with
MergeClock == [utc |-> 1000000, offset |-> 0]
MERGE_DAYS == 30

BuilderNames == {"last_n_days", "external_meetings", "internal_meetings", "with_details"}

\* FathomFilters.<name>()
Built(name) ==
    CASE name = "last_n_days" -> last_n_days(MERGE_DAYS, MergeClock)
      [] name = "external_meetings" -> external_meetings
      [] name = "internal_meetings" -> internal_meetings
      [] name = "with_details" -> with_details

\* how many filter mappings one dict display merges
MaxOperands == 3

-----------------------------------------------------------------------------
(* The state machine: one process, one connection, one call at a time *)

Self ==
    [debug |-> debug, api_key |-> api_key, base_url |-> base_url,
     sdk_client |-> sdk_client, rest_headers |-> rest_headers]

NoArgs == [prefer_rest |-> FALSE, params |-> EmptyDict]
NoOutcomes == [sdk |-> <<>>, rest |-> <<>>]

Init ==
    /\ phase = "none"
    /\ environ \in EnvValues
    /\ debug = Unset /\ api_key = Unset /\ base_url = Unset
    /\ sdk_client = Unset /\ rest_headers = Unset
    /\ op = "" /\ args = NoArgs /\ outcomes = NoOutcomes
    /\ result = None /\ raised = None /\ calls = <<>> /\ net = <<>>
    /\ stdout = <<>>

\* the method `name` ran with arguments a while the transports did o, and
\* ended as r
Invoked(name, a, o, r) ==
    /\ op' = name /\ args' = a /\ outcomes' = o
    /\ result' = r.val
    /\ raised' = IF r.kind = "raise" THEN Some(r.exc) ELSE None
    /\ calls' = r.calls /\ net' = r.net
    /\ stdout' = IF "out" \in DOMAIN r THEN r.out ELSE <<>>
    /\ debug' = r.self.debug /\ api_key' = r.self.api_key
    /\ base_url' = r.self.base_url /\ sdk_client' = r.self.sdk_client
    /\ rest_headers' = r.self.rest_headers
    /\ UNCHANGED environ

\* conn = FathomConnection(api_key=param, debug=dbg)
Construct ==
    /\ phase = "none"
    /\ \E param \in KeyArgs, dbg \in BOOLEAN, ctor \in CtorOutcomes :
         LET r == FathomConnectionInit(param, environ, dbg, ctor)
         IN  /\ Invoked("__init__", [api_key |-> param, debug |-> dbg],
                        [sdk |-> <<ctor>>, rest |-> <<>>], r)
             /\ phase' = IF r.kind = "raise" THEN "failed" ELSE "ready"

ListTeamsSdk ==
    /\ phase = "ready"
    /\ \E o \in SdkOutcomes :
         LET r == list_teams_sdk(Self, o)
         IN  Invoked("list_teams_sdk", NoArgs, [sdk |-> <<o>>, rest |-> <<>>],
                     End(r, <<Call("sdk", "teams", EmptyDict, r)>>, r.net, Self))
    /\ UNCHANGED phase

ListMeetingsSdk ==
    /\ phase = "ready"
    /\ \E f \in Params, o \in SdkOutcomes :
         LET r == list_meetings_sdk(Self, f, o)
         IN  Invoked("list_meetings_sdk", [prefer_rest |-> FALSE, params |-> f],
                     [sdk |-> <<o>>, rest |-> <<>>],
                     End(r, <<Call("sdk", "meetings", f, r)>>, r.net, Self))
    /\ UNCHANGED phase

ListTeamsRest ==
    /\ phase = "ready"
    /\ \E o \in RestOutcomes :
         LET r == list_teams_rest(Self, o)
         IN  Invoked("list_teams_rest", NoArgs, [sdk |-> <<>>, rest |-> <<o>>],
                     End(r, <<Call("rest", "teams", EmptyDict, r)>>, r.net, Self))
    /\ UNCHANGED phase

ListMeetingsRest ==
    /\ phase = "ready"
    /\ \E p \in Params, o \in RestOutcomes :
         LET r == list_meetings_rest(Self, p, o)
         IN  Invoked("list_meetings_rest", [prefer_rest |-> FALSE, params |-> p],
                     [sdk |-> <<>>, rest |-> <<o>>],
                     End(r, <<Call("rest", "meetings", p, r)>>, r.net, Self))
    /\ UNCHANGED phase

ListTeams ==
    /\ phase = "ready"
    /\ \E pr \in BOOLEAN, oS \in SdkOutcomes, oR \in RestOutcomes :
         Invoked("list_teams", [prefer_rest |-> pr, params |-> EmptyDict],
                 [sdk |-> <<oS>>, rest |-> <<oR>>], list_teams(Self, pr, oS, oR))
    /\ UNCHANGED phase

ListMeetings ==
    /\ phase = "ready"
    /\ \E pr \in BOOLEAN, kw \in Params, oS \in SdkOutcomes, oR \in RestOutcomes :
         Invoked("list_meetings", [prefer_rest |-> pr, params |-> kw],
                 [sdk |-> <<oS>>, rest |-> <<oR>>], list_meetings(Self, pr, kw, oS, oR))
    /\ UNCHANGED phase

GetApiKeyInfo ==
    /\ phase = "ready"
    /\ Invoked("get_api_key_info", NoArgs, NoOutcomes, get_api_key_info(Self))
    /\ UNCHANGED phase

TestConnection ==
    /\ phase = "ready"
    /\ \E oTS \in SdkOutcomes, oTR \in ProbeRestOutcomes,
          oMS \in SdkOutcomes, oMR \in ProbeRestOutcomes :
         Invoked("test_connection", NoArgs,
                 [sdk |-> <<oTS, oMS>>, rest |-> <<oTR, oMR>>],
                 test_connection(Self, oTS, oTR, oMS, oMR))
    /\ UNCHANGED phase

\* DebugTransport(base_transport, debug=d).handle_request(request)
HandleRequest ==
    /\ phase # "failed"
    /\ \E d \in BOOLEAN, request \in Requests, o \in TransportOutcomes :
         LET r == handle_request([transport |-> "base_transport", debug |-> d], request, o)
         IN  Invoked("handle_request", [debug |-> d, request |-> request],
                     [transport |-> <<o>>],
                     [kind |-> r.kind, val |-> r.val, exc |-> r.exc, net |-> r.net,
                      calls |-> <<>>, self |-> Self, out |-> r.out])
    /\ UNCHANGED phase

Next ==
    \/ Construct
    \/ ListTeamsSdk
    \/ ListMeetingsSdk
    \/ ListTeamsRest
    \/ ListMeetingsRest
    \/ ListTeams
    \/ ListMeetings
    \/ GetApiKeyInfo
    \/ TestConnection

Spec == Init /\ [][Next]_vars

\* FathomFilters.last_n_days(days)
LastNDays ==
    /\ phase # "failed"
    /\ \E days \in Days, clock \in Clocks :
         Invoked("last_n_days", [days |-> days],
                 [now_utc |-> clock.utc, utc_offset |-> clock.offset],
                 End(Return(last_n_days(days, clock), <<>>), <<>>, <<>>, Self))
    /\ UNCHANGED phase

\* filters = {**FathomFilters.a(), **FathomFilters.b(), ...}
MergeFilters ==
    /\ phase # "failed"
    /\ \E n \in 1..MaxOperands :
         \E names \in [1..n -> BuilderNames] :
           Invoked("merge_filters", [operands |-> names], NoOutcomes,
                   End(Return(MergeAll([i \in 1..n |-> Built(names[i])]), <<>>),
                       <<>>, <<>>, Self))
    /\ UNCHANGED phase

\* the filter builders on their own: static, pure functions
SpecFilters == Init /\ [][LastNDays \/ MergeFilters]_vars

\* DebugTransport on its own: the class reads nothing of a connection
SpecDebugTransport == Init /\ [][HandleRequest]_vars

-----------------------------------------------------------------------------
(* Properties *)

Primitives == {"list_teams_sdk", "list_meetings_sdk", "list_teams_rest", "list_meetings_rest"}
Composed == {"list_teams", "list_meetings"}
ClientOps == Primitives \cup Composed
ConnectionOps == ClientOps \cup {"get_api_key_info", "test_connection"}

\* the transport calls of the last invocation that went to the given transport
NetOf(kind) == {i \in DOMAIN net : net[i].kind = kind}

EnvelopeOK(e) ==
    /\ e.success => e.error = None
    /\ ~e.success => e.data = None

\* C1: every envelope a client operation returns, and every envelope a
\* primitive hands to the method that ran it, has no error when success is
\* true and no data when success is false, whatever the transports did.
C1_EnvelopeInvariant ==
    /\ (op \in ClientOps /\ result # None) => EnvelopeOK(result[1])
    /\ \A i \in DOMAIN calls : calls[i].env # None => EnvelopeOK(calls[i].env[1])

\* a REST operation got a non-200 status whose body is JSON, and failed
C1_Witness ==
    /\ op = "list_meetings_rest"
    /\ ~outcomes.rest[1].raises
    /\ outcomes.rest[1].status_code = 404
    /\ Json(outcomes.rest[1].text).ok
    /\ result # None /\ ~result[1].success

\* C2: a composed operation called with prefer_rest=false whose SDK path
\* returns success=true returns exactly that SDK envelope, having run no
\* other primitive and made no HTTP GET.
C2_SdkSuccessShortCircuits ==
    (/\ op \in Composed
     /\ ~args.prefer_rest
     /\ sdk_client[1] # None
     /\ ~outcomes.sdk[1].raises)
    => /\ Len(calls) = 1
       /\ calls[1].path = "sdk"
       /\ calls[1].env # None /\ calls[1].env[1].success
       /\ result = calls[1].env
       /\ result[1] = FathomResponse(TRUE, Some(outcomes.sdk[1].val), None, "sdk", None)
       /\ NetOf("http_get") = {}

C2_Witness ==
    /\ op = "list_meetings"
    /\ ~args.prefer_rest
    /\ args.params # EmptyDict
    /\ result # None /\ result[1].success /\ result[1].method = "sdk"
    /\ ~outcomes.rest[1].raises /\ outcomes.rest[1].status_code = 200

\* the SDK path of the last invocation reported failure as the first call
SdkFailedFirst ==
    /\ Len(calls) >= 1
    /\ calls[1].path = "sdk"
    /\ calls[1].env # None /\ ~calls[1].env[1].success

\* C3: a composed operation called with prefer_rest=false whose SDK path
\* returns success=false returns exactly the envelope of the REST path, be
\* it a success or a failure; when both fail the result carries the REST
\* error and the tag 'rest', and not the SDK's error.
C3_SdkFailureReturnsRest ==
    (op \in Composed /\ ~args.prefer_rest /\ SdkFailedFirst)
    => /\ Len(calls) = 2
       /\ calls[2].path = "rest"
       /\ result = calls[2].env
       /\ result # None
       /\ result[1].method = "rest"
       /\ ~result[1].success =>
            /\ result[1].error # calls[1].env[1].error
            /\ result[1].error \in
                 {Some(outcomes.rest[1].exc), Some(outcomes.rest[1].text),
                  Some(Json(outcomes.rest[1].text).exc)}

\* both paths failed, the SDK by an exception and REST by a 404
C3_Witness ==
    /\ op = "list_teams"
    /\ ~args.prefer_rest
    /\ SdkFailedFirst
    /\ calls[1].env[1].error = Some("sdk: unauthorized")
    /\ result # None /\ ~result[1].success
    /\ result[1].status_code = Some(404)

\* the envelope of an SDK method on a connection without SDK client
NotInitialized ==
    FathomResponse(FALSE, None, Some("SDK client not initialized"), "sdk", None)

SdkUnavailable == phase = "ready" /\ sdk_client[1] = None

\* C4 as stated: without SDK client the SDK methods return the fixed
\* envelope and make no call, and every composed call, for either value of
\* prefer_rest, returns the envelope of its REST path.
C4_ComposedAlwaysReturnsRest ==
    SdkUnavailable =>
      /\ op \in {"list_teams_sdk", "list_meetings_sdk"} =>
            result = Some(NotInitialized) /\ net = <<>>
      /\ op \in Composed =>
            /\ NetOf("sdk") = {}
            /\ \E i \in DOMAIN calls : calls[i].path = "rest" /\ result = calls[i].env

\* C4 (amended): without SDK client the SDK methods return the fixed
\* envelope and make no call; a composed call makes no SDK call and exactly
\* one HTTP GET, and returns the REST envelope when prefer_rest is false or
\* the REST path succeeded, and the fixed "not initialized" envelope when
\* prefer_rest is true and the REST path failed.
C4_SdkUnavailable ==
    SdkUnavailable =>
      /\ op \in {"list_teams_sdk", "list_meetings_sdk"} =>
            result = Some(NotInitialized) /\ net = <<>>
      /\ op \in Composed =>
            /\ NetOf("sdk") = {}
            /\ Cardinality(NetOf("http_get")) = 1
            /\ \A i \in DOMAIN calls :
                 calls[i].path = "sdk" => calls[i].env = Some(NotInitialized)
            /\ ~args.prefer_rest =>
                 /\ Len(calls) = 2 /\ calls[2].path = "rest"
                 /\ result = calls[2].env
            /\ args.prefer_rest =>
                 /\ calls[1].path = "rest"
                 /\ IF calls[1].env[1].success
                    THEN result = calls[1].env
                    ELSE result = Some(NotInitialized)

\* REST was preferred and failed on a connection without SDK client
C4_Witness ==
    /\ SdkUnavailable
    /\ op = "list_meetings"
    /\ args.prefer_rest
    /\ calls[1].path = "rest" /\ ~calls[1].env[1].success
    /\ result = Some(NotInitialized)

\* str(e) of the exception the REST transport of the last invocation raises:
\* requests.get's own, or the decoder's on a 200 whose body is no JSON
RestExc(o) ==
    IF o.raises THEN Some(o.exc)
    ELSE IF o.status_code = 200 /\ ~Json(o.text).ok THEN Some(Json(o.text).exc)
    ELSE None

\* str(e) of the exception the SDK raises when it is called
SdkExc(o) ==
    IF sdk_client[1] # None /\ o.raises THEN Some(o.exc) ELSE None

\* the exception the transport of a path raises in a client operation
TransportExc(path) ==
    IF path = "sdk" THEN SdkExc(outcomes.sdk[1]) ELSE RestExc(outcomes.rest[1])

Failed(path) == FathomResponse(FALSE, None, TransportExc(path), path, None)

\* C5 as stated: no exception escapes a primitive or composed operation,
\* and an operation during which a transport raised returns
\* {success=false, error=str(e), method=tag of the raising path}.
C5_RaisingOperationReturnsFailure ==
    op \in ClientOps =>
      /\ raised = None
      /\ \A i \in DOMAIN calls :
           TransportExc(calls[i].path) # None => result = Some(Failed(calls[i].path))

\* C5 (amended): no exception escapes any operation of a connection; the
\* primitive whose transport raised returns {success=false, error=str(e),
\* method=its tag}; a composed operation returns the envelope of the last
\* primitive it ran, so it returns that failure exactly when the raising
\* path was the last one attempted.
C5_ExceptionsAbsorbed ==
    (phase = "ready" /\ op \in ConnectionOps) =>
      /\ raised = None
      /\ result # None
      /\ op \in ClientOps =>
           /\ result = calls[Len(calls)].env
           /\ \A i \in DOMAIN calls :
                TransportExc(calls[i].path) # None =>
                  calls[i].env = Some(Failed(calls[i].path))

\* the SDK raised, then REST answered 200 with a body that is no JSON
C5_Witness ==
    /\ op = "list_teams"
    /\ ~args.prefer_rest
    /\ TransportExc("sdk") # None
    /\ ~outcomes.rest[1].raises /\ TransportExc("rest") # None
    /\ Len(calls) = 2
    /\ result = Some(Failed("rest"))

Preferred == IF args.prefer_rest THEN "rest" ELSE "sdk"
Other == IF args.prefer_rest THEN "sdk" ELSE "rest"

\* C6: one invocation of a composed operation runs the preferred path
\* exactly once, the other path at most once and only after the preferred
\* one reported failure, and no path twice: at most two attempts and at most
\* one call per transport.
C6_AtMostTwoAttempts ==
    op \in Composed =>
      /\ Len(calls) \in {1, 2}
      /\ calls[1].path = Preferred
      /\ Len(calls) = 2 =>
           /\ calls[2].path = Other
           /\ calls[1].env # None /\ ~calls[1].env[1].success
      /\ Cardinality(NetOf("sdk")) <= 1
      /\ Cardinality(NetOf("http_get")) <= 1
      /\ Len(net) <= Len(calls)

\* both paths were attempted and both reached their transport
C6_Witness ==
    /\ op = "list_teams"
    /\ Len(calls) = 2
    /\ Len(net) = 2
    /\ result # None /\ ~result[1].success

\* C7: a composed operation called with prefer_rest=true runs the REST path
\* first; if that envelope reports success it is the result and the SDK
\* path is not run; otherwise the SDK path runs with the same parameters
\* and its envelope is the result, success or not.
C7_PreferRest ==
    (op \in Composed /\ args.prefer_rest) =>
      /\ calls[1].path = "rest"
      /\ calls[1].params = args.params
      /\ net[1] = HttpGet(base_url[1] \o (IF op = "list_teams" THEN "/teams" ELSE "/meetings"),
                          rest_headers[1], args.params)
      /\ calls[1].env # None
      /\ IF calls[1].env[1].success
         THEN /\ Len(calls) = 1
              /\ result = calls[1].env
              /\ NetOf("sdk") = {}
         ELSE /\ Len(calls) = 2
              /\ calls[2].path = "sdk"
              /\ calls[2].params = args.params
              /\ result = calls[2].env
              /\ \A i \in NetOf("sdk") : net[i].params = args.params

\* REST failed and the SDK fallback, given the same filters, succeeded
C7_Witness ==
    /\ op = "list_meetings"
    /\ args.prefer_rest
    /\ args.params # EmptyDict
    /\ Len(calls) = 2
    /\ result # None /\ result[1].success /\ result[1].method = "sdk"

\* C8: constructing a connection with no non-empty api_key argument and no
\* FATHOM_API_KEY in the environment raises the configuration error before
\* the SDK client is created and before any transport call; no connection
\* exists afterwards, so no operation can be invoked.
C8_MissingKeyFailsConstruction ==
    (op = "__init__" /\ ~Truthy(args.api_key) /\ environ = None) =>
      /\ phase = "failed"
      /\ raised = Some("FATHOM_API_KEY not found in ~/.env or provided as parameter")
      /\ result = None
      /\ api_key = Unset
      /\ sdk_client = Unset
      /\ rest_headers = Unset
      /\ net = <<>>
      /\ ~ENABLED Next

\* the constructor was given an empty key and the environment has none
C8_Witness ==
    /\ op = "__init__"
    /\ args.api_key = Some("")
    /\ environ = None
    /\ phase = "failed"

\* C9: a REST operation whose response has a non-2xx status returns
\* {success=false, data absent, error=the body text, method='rest',
\* status_code=the status received}.
C9_Non2xxIsFailure ==
    (/\ op \in {"list_teams_rest", "list_meetings_rest"}
     /\ ~outcomes.rest[1].raises
     /\ outcomes.rest[1].status_code \notin 200..299)
    => result = Some(FathomResponse(FALSE, None, Some(outcomes.rest[1].text), "rest",
                                    Some(outcomes.rest[1].status_code)))

\* a 404 whose body is "oops"
C9_Witness ==
    /\ op = "list_teams_rest"
    /\ ~outcomes.rest[1].raises
    /\ outcomes.rest[1].status_code = 404
    /\ result # None /\ result[1].error = Some("oops")

\* C10: once a connection is constructed no operation changes its api_key,
\* base_url, rest_headers, sdk_client (or debug flag), nor the environment
\* entry it was built from: every step taken on a connection leaves them as
\* they were, so an invocation reads the same configuration as every other.
C10_ConfigurationReadOnly ==
    [][phase = "ready" =>
         /\ phase' = "ready"
         /\ api_key' = api_key
         /\ base_url' = base_url
         /\ rest_headers' = rest_headers
         /\ sdk_client' = sdk_client
         /\ debug' = debug
         /\ environ' = environ]_vars

\* a composed call whose SDK path failed has left the SDK client in place
C10_Witness ==
    /\ phase = "ready"
    /\ op = "list_teams"
    /\ SdkFailedFirst
    /\ TransportExc("sdk") # None
    /\ sdk_client[1] # None
    /\ rest_headers = Some(("x-api-key" :> api_key[1]) @@ ("Accept" :> "application/json"))

\* header names of HeaderNames that contain 'auth' or 'key' in some case
SensitiveNames == {"x-api-key", "Authorization", "PROXY-KEY"}

\* the text logged for the value of header i of the last request: the line
\* without its "  name: " prefix
LoggedValue(i) ==
    LET h == args.request.headers[i]
        prefix == "  " \o h[1] \o ": "
    IN  SubSeq(stdout[i + 1], Len(prefix) + 1, Len(stdout[i + 1]))

\* C11 as stated: with debug on, the value of every header whose name
\* contains 'auth' or 'key' is logged as its first 20 characters followed by
\* '...', and every other header's value is logged as it is.
C11_SensitiveAlwaysEllipsis ==
    (op = "handle_request" /\ args.debug) =>
      \A i \in DOMAIN args.request.headers :
        LET h == args.request.headers[i]
        IN  IF h[1] \in SensitiveNames
            THEN LoggedValue(i) = Slice(h[2], TRUNCATE_LEN) \o "..."
            ELSE LoggedValue(i) = h[2]

\* C11 (amended): with debug on, handle_request prints one line per header,
\* "  name: value"; for a header whose name contains 'auth' or 'key' in any
\* case and whose value is longer than 20 characters the value printed is
\* its first 20 characters followed by '...'; such a value of at most 20
\* characters, and the value of every other header, is printed unmodified.
\* No more than 20 characters of a sensitive value are printed.
C11_HeaderLogging ==
    (op = "handle_request" /\ args.debug) =>
      /\ Len(stdout) = Len(args.request.headers) + 1
      /\ stdout[1] = "DEBUG: " \o args.request.method \o " " \o args.request.url
      /\ \A i \in DOMAIN args.request.headers :
           LET h == args.request.headers[i]
           IN  /\ Slice(stdout[i + 1], Len(h[1]) + 4) = "  " \o h[1] \o ": "
               /\ IF h[1] \in SensitiveNames /\ Len(h[2]) > 20
                  THEN /\ LoggedValue(i) = Slice(h[2], 20) \o "..."
                       /\ Len(LoggedValue(i)) = 23
                  ELSE LoggedValue(i) = h[2]

\* a mixed-case sensitive name with a value of 21 characters was logged
C11_Witness ==
    /\ op = "handle_request"
    /\ args.debug
    /\ args.request.headers[1][1] = "Authorization"
    /\ Len(args.request.headers[1][2]) = 21
    /\ stdout[2] = "  Authorization: abcdefghijklmnopqrst..."

\* C12: handle_request hands the request it was given, unmodified, to the
\* wrapped transport exactly once and returns that transport's response (or
\* lets its exception through) unmodified, whatever the debug flag; with
\* debug off it prints nothing, with debug on it prints.
C12_PurelyObservational ==
    op = "handle_request" =>
      /\ net = <<Delegated(args.request)>>
      /\ IF outcomes.transport[1].raises
         THEN result = None /\ raised = Some(outcomes.transport[1].exc)
         ELSE result = Some(outcomes.transport[1].response) /\ raised = None
      /\ ~args.debug => stdout = <<>>
      /\ args.debug => stdout # <<>>

\* a request with a long sensitive header went through a logging transport
C12_Witness ==
    /\ op = "handle_request"
    /\ args.debug
    /\ Len(args.request.headers) = 2
    /\ Len(args.request.headers[1][2]) > 20
    /\ result = Some("<Response [200 OK]>")
    /\ Len(stdout) = 3

DomainKey == "calendar_invitees_domains_type"

\* the last operand of the last merge that is a domain-type builder, 0 if none
LastDomainOperand ==
    LET is == {i \in DOMAIN args.operands :
                 args.operands[i] \in {"internal_meetings", "external_meetings"}}
    IN  IF is = {} THEN 0 ELSE CHOOSE i \in is : \A j \in is : j <= i

\* C13: internal_meetings() and external_meetings() each return a mapping
\* whose only key is calendar_invitees_domains_type; a merge of filter
\* mappings that has them as operands, in any order and among any others,
\* has one calendar_invitees_domains_type entry, with the value of the last
\* such operand, and the other keys of the merge are those of the other
\* operands with their values.
C13_LaterDomainFilterWins ==
    op = "merge_filters" =>
      LET names == args.operands
          merged == result[1]
          has(name) == \E i \in DOMAIN names : names[i] = name
          details == {"include_action_items", "include_crm_matches",
                      "include_summary", "include_transcript"}
      IN  /\ DOMAIN merged =
               (IF LastDomainOperand # 0 THEN {DomainKey} ELSE {})
               \cup (IF has("with_details") THEN details ELSE {})
               \cup (IF has("last_n_days") THEN {"created_after"} ELSE {})
          /\ LastDomainOperand # 0 =>
               merged[DomainKey] =
                 IF names[LastDomainOperand] = "internal_meetings"
                 THEN "ListMeetingsCalendarInviteesDomainsType.ONLY_INTERNAL"
                 ELSE "ListMeetingsCalendarInviteesDomainsType.ONE_OR_MORE_EXTERNAL"
          /\ has("with_details") => \A k \in details : merged[k] = TRUE
          /\ has("last_n_days") => merged["created_after"].designator = "Z"

\* external, then internal, merged: internal wins
C13_Witness ==
    /\ op = "merge_filters"
    /\ Len(args.operands) >= 2
    /\ args.operands[1] = "external_meetings"
    /\ args.operands[2] = "internal_meetings"
    /\ LastDomainOperand = 2
    /\ result[1][DomainKey] = "ListMeetingsCalendarInviteesDomainsType.ONLY_INTERNAL"

\* the instant a timestamp text denotes, its 'Z' read as UTC
ParseTimestamp(ts) == ts.datetime

Abs(x) == IF x < 0 THEN -x ELSE x

\* C14: last_n_days(n) returns a mapping whose only key is created_after,
\* and that value, parsed with its 'Z' read as UTC, is within one second of
\* the instant n days before now, for positive, zero and negative n.
C14_WithinOneSecondOfNowMinusDays ==
    op = "last_n_days" =>
      /\ DOMAIN result[1] = {"created_after"}
      /\ result[1]["created_after"].designator = "Z"
      /\ Abs(ParseTimestamp(result[1]["created_after"])
             - (outcomes.now_utc - args.days * 86400)) <= 1

\* C15: a REST operation reports success exactly when the status code is
\* 200 and the body parses as JSON; every other status, 201 and 204
\* included, gives the failed envelope with the body as error text and the
\* status received; and in a composed call with prefer_rest=true such a
\* response makes the SDK path run and decide the result.
C15_OnlyStatus200Succeeds ==
    /\ (op \in {"list_teams_rest", "list_meetings_rest"} /\ ~outcomes.rest[1].raises) =>
         LET o == outcomes.rest[1]
         IN  /\ result # None
             /\ result[1].success <=> (o.status_code = 200 /\ o.text \in {"[]", "{}"})
             /\ o.status_code # 200 =>
                  result[1] = FathomResponse(FALSE, None, Some(o.text), "rest",
                                             Some(o.status_code))
    /\ (/\ op \in Composed
        /\ args.prefer_rest
        /\ ~outcomes.rest[1].raises
        /\ outcomes.rest[1].status_code # 200) =>
         /\ Len(calls) = 2
         /\ calls[1].path = "rest"
         /\ calls[1].env = Some(FathomResponse(FALSE, None, Some(outcomes.rest[1].text),
                                               "rest", Some(outcomes.rest[1].status_code)))
         /\ calls[2].path = "sdk"
         /\ result = calls[2].env

\* REST was preferred and answered 204, and the SDK's answer was returned
C15_Witness ==
    /\ op = "list_meetings"
    /\ args.prefer_rest
    /\ ~outcomes.rest[1].raises
    /\ outcomes.rest[1].status_code = 204
    /\ outcomes.rest[1].text = "[]"
    /\ result # None /\ result[1].method = "sdk" /\ result[1].success

====
